---- MODULE Spec2Model ----
(***************************************************************************)
(* A model of the interactive story game: the save store                   *)
(* (src/src/story_save_manager.py), the session state (src/src/game.py),   *)
(* the character agents (src/src/character.py, src/main.py), the drama     *)
(* manager (src/src/drama_manager.py), the narrative engine                *)
(* (src/src/narrative_engine.py), the menu loop of create_story_scene      *)
(* (src/src/game.py) and the web front end (src/src/app.py).               *)
(***************************************************************************)
EXTENDS Integers, Sequences, FiniteSets, TLC

VARIABLES
    files,                  \* the save directory: file name -> file content
    now,                    \* the wall clock, in seconds
    uuids,                  \* how many uuid4 ids have been generated
    hist,                   \* history: save id -> the last save call that wrote it
    story_state,            \* GameState.story_state (the situation)
    characters,             \* GameState.characters: name -> Character
    current_developments,   \* GameState.current_developments
    branching_factor,       \* NarrativeEngine.branching_factor
    history,                \* NarrativeEngine.history
    pc,                     \* where the menu loop of create_story_scene stands
    session_state,          \* st.session_state of the web front end
    writers,                \* the save_game calls in progress, one per session
    ret                     \* the outcome of the last operation

vars == <<files, now, uuids, hist, story_state, characters,
          current_developments, branching_factor, history, pc, session_state,
          writers, ret>>

storeVars == <<files, now, uuids, hist>>
sessionVars == <<story_state, characters, current_developments>>
engineVars == <<branching_factor, history>>
uiVars == <<pc, session_state>>

----------------------------------------------------------------------------
(* Bounds of the model *)

MaxNow == 1             \* the wall clock runs over the seconds 0..MaxNow
MaxUuid == 1            \* uuid4 ids that save_game may generate
MaxFiles == 2           \* files the save directory may hold

----------------------------------------------------------------------------
(* Python values *)

None == [py |-> "None"]
EmptyDict == [k \in {} |-> "none"]

\* `metadata or {}`
OrEmptyDict(metadata) == IF metadata = None \/ metadata = EmptyDict THEN EmptyDict ELSE metadata

\* datetime.now().isoformat() at second t
IsoFormat(t) == "T" \o ToString(t)

\* datetime.now().strftime("%Y%m%d_%H%M%S") at second t
StrfTime(t) == ToString(t)

\* str(uuid.uuid4()): the n-th generated id, different from all earlier ones
Uuid4(n) == "uuid-" \o ToString(n)

----------------------------------------------------------------------------
(* StorySaveManager *)

Slots == {0, 1}

\* the ids a caller passes to save_game: those an earlier save_game returned
ExplicitIds(n) == {Uuid4(i) : i \in 1 .. n}

QuickSaveId_SlotDropped(slot) == "quicksave_0"
QuickSaveId(slot) == "quicksave_" \o ToString(slot)

AutosaveId_NoTimestamp(t) == "autosave_" \o StrfTime(0)
AutosaveId(t) == "autosave_" \o StrfTime(t)

SaveIds ==
    {Uuid4(n) : n \in 1 .. MaxUuid}
        \cup {QuickSaveId(s) : s \in Slots}
        \cup {AutosaveId(t) : t \in 0 .. MaxNow}

GetSavePath(save_id) == "save_" \o save_id \o ".json"

\* filename[5:-5] of a file that GetSavePath named
SaveIdOfPath(filename) == CHOOSE id \in SaveIds : GetSavePath(id) = filename

SaveData_PayloadsSwapped(save_id, t, story, chars, narrative, metadata) ==
    [save_id |-> save_id,
     timestamp |-> IsoFormat(t),
     story_state |-> narrative,
     character_states |-> chars,
     narrative_state |-> story,
     metadata |-> OrEmptyDict(metadata)]
SaveData(save_id, t, story, chars, narrative, metadata) ==
    [save_id |-> save_id,
     timestamp |-> IsoFormat(t),
     story_state |-> story,
     character_states |-> chars,
     narrative_state |-> narrative,
     metadata |-> OrEmptyDict(metadata)]

\* json.dump of a dict: the text of a JSON object
JsonDump(data) == [json |-> "object", value |-> data]

\* json.load: raises on text that is no JSON, else the dict or list it denotes
JsonLoad(content) ==
    CASE content.json = "object" -> [exc |-> "none", type |-> "dict", value |-> content.value]
      [] content.json = "array" -> [exc |-> "none", type |-> "list", value |-> content.value]
      [] OTHER -> [exc |-> "JSONDecodeError"]

\* open(save_path, 'w') and json.dump: creates or replaces the file
WriteFile(fs, path, content) ==
    [p \in DOMAIN fs \cup {path} |-> IF p = path THEN content ELSE fs[p]]

\* os.remove
RemoveFile(fs, path) == [p \in DOMAIN fs \ {path} |-> fs[p]]

FilesAfterSave(fs, save_id, t, story, chars, narrative, metadata) ==
    WriteFile(fs, GetSavePath(save_id),
              JsonDump(SaveData(save_id, t, story, chars, narrative, metadata)))

LoadGame_NoExistenceCheck(fs, save_id) ==
    IF GetSavePath(save_id) \notin DOMAIN fs
    THEN [exc |-> "none", type |-> "dict", value |-> EmptyDict]
    ELSE JsonLoad(fs[GetSavePath(save_id)])
LoadGame(fs, save_id) ==
    IF GetSavePath(save_id) \notin DOMAIN fs
    THEN [exc |-> "FileNotFoundError"]
    ELSE JsonLoad(fs[GetSavePath(save_id)])

\* save_data[key], as list_saves evaluates it
Subscript(loaded, key) ==
    CASE loaded.type # "dict" -> [exc |-> "TypeError"]
      [] key \notin DOMAIN loaded.value -> [exc |-> "KeyError"]
      [] OTHER -> [exc |-> "none", value |-> loaded.value[key]]

\* one iteration of the loop of list_saves: "entry", "skip" or an exception
\* that neither except clause catches
ListEntry(fs, save_id) ==
    LET loaded == LoadGame(fs, save_id) IN
    IF loaded.exc # "none"
    THEN IF loaded.exc \in {"JSONDecodeError", "KeyError"}
         THEN [kind |-> "skip"]
         ELSE [kind |-> "raise", exc |-> loaded.exc]
    ELSE LET ts == Subscript(loaded, "timestamp")
             md == Subscript(loaded, "metadata") IN
         CASE ts.exc = "none" /\ md.exc = "none" ->
                 [kind |-> "entry", info |-> [timestamp |-> ts.value, metadata |-> md.value]]
           [] ts.exc = "KeyError" \/ (ts.exc = "none" /\ md.exc = "KeyError") ->
                 [kind |-> "skip"]
           [] OTHER -> [kind |-> "raise", exc |-> IF ts.exc # "none" THEN ts.exc ELSE md.exc]

ListSaves(fs) ==
    LET ids == {SaveIdOfPath(p) : p \in DOMAIN fs}
        raising == {id \in ids : ListEntry(fs, id).kind = "raise"}
        listed == {id \in ids : ListEntry(fs, id).kind = "entry"} IN
    IF raising # {}
    THEN [exc |-> ListEntry(fs, CHOOSE id \in raising : TRUE).exc]
    ELSE [exc |-> "none", value |-> [id \in listed |-> ListEntry(fs, id).info]]

\* delete_save: the files it leaves and the value it returns
DeleteSaveResult_KeepsFile(fs, save_id) ==
    [files |-> fs, value |-> GetSavePath(save_id) \in DOMAIN fs]
DeleteSaveResult(fs, save_id) ==
    IF GetSavePath(save_id) \in DOMAIN fs
    THEN [files |-> RemoveFile(fs, GetSavePath(save_id)), value |-> TRUE]
    ELSE [files |-> fs, value |-> FALSE]

QuickSaveMetadata(slot) == [type |-> "quicksave", slot |-> slot]
AutosaveMetadata(t) == [type |-> "autosave", timestamp |-> StrfTime(t)]

----------------------------------------------------------------------------
(* Inputs of the save store's callers *)

StoryPayloads == {"lab", "corridor"}
CharPayloads == {"focused"}
NarrativePayloads == {"medium"}
GameStates ==
    [story_state : StoryPayloads, character_states : CharPayloads,
     narrative_state : NarrativePayloads]
ManualMetadata == {None, [chapter |-> 1]}

\* file contents no save_game call writes
Malformed == [json |-> "malformed", value |-> [text |-> "{"]]
MissingFields == [json |-> "object", value |-> [save_id |-> "x"]]
NonObject == [json |-> "array", value |-> [items |-> <<>>]]
CorruptContents == {Malformed, MissingFields, NonObject}

RoomFor(save_id) ==
    GetSavePath(save_id) \in DOMAIN files \/ Cardinality(DOMAIN files) < MaxFiles

HistAfterSave(h, save_id, by, story, chars, narrative) ==
    [i \in DOMAIN h \cup {save_id} |->
        IF i = save_id
        THEN [by |-> by, story_state |-> story, character_states |-> chars,
              narrative_state |-> narrative, intact |-> TRUE]
        ELSE h[i]]

----------------------------------------------------------------------------
(* The operations of the save store *)

\* save_game with an explicit save_id
SaveGameWithId(story, chars, narrative, save_id, metadata) ==
    /\ save_id \in ExplicitIds(uuids)
    /\ RoomFor(save_id)
    /\ files' = FilesAfterSave(files, save_id, now, story, chars, narrative, metadata)
    /\ hist' = HistAfterSave(hist, save_id, "save_game", story, chars, narrative)
    /\ ret' = [op |-> "save_game", id |-> save_id, exc |-> "none"]
    /\ UNCHANGED <<now, uuids, sessionVars, engineVars, uiVars, writers>>

\* save_game with save_id None: a fresh uuid4
SaveGameNewId(story, chars, narrative, metadata) ==
    /\ uuids < MaxUuid
    /\ RoomFor(Uuid4(uuids + 1))
    /\ uuids' = uuids + 1
    /\ files' = FilesAfterSave(files, Uuid4(uuids + 1), now, story, chars, narrative, metadata)
    /\ hist' = HistAfterSave(hist, Uuid4(uuids + 1), "save_game", story, chars, narrative)
    /\ ret' = [op |-> "save_game", id |-> Uuid4(uuids + 1), exc |-> "none"]
    /\ UNCHANGED <<now, sessionVars, engineVars, uiVars, writers>>

LoadGameCall(save_id) ==
    /\ ret' = [op |-> "load_game", id |-> save_id, res |-> LoadGame(files, save_id),
               before |-> files]
    /\ UNCHANGED <<storeVars, sessionVars, engineVars, uiVars, writers>>

ListSavesCall ==
    /\ ret' = [op |-> "list_saves", res |-> ListSaves(files)]
    /\ UNCHANGED <<storeVars, sessionVars, engineVars, uiVars, writers>>

DeleteSave(save_id) ==
    LET res == DeleteSaveResult(files, save_id) IN
    /\ files' = res.files
    /\ ret' = [op |-> "delete_save", id |-> save_id, value |-> res.value, before |-> files]
    /\ hist' = [i \in DOMAIN hist \ {save_id} |-> hist[i]]
    /\ UNCHANGED <<now, uuids, sessionVars, engineVars, uiVars, writers>>

QuickSave(game_state, slot) ==
    /\ RoomFor(QuickSaveId(slot))
    /\ files' = FilesAfterSave(files, QuickSaveId(slot), now, game_state.story_state,
                               game_state.character_states, game_state.narrative_state,
                               QuickSaveMetadata(slot))
    /\ hist' = HistAfterSave(hist, QuickSaveId(slot), "quick_save", game_state.story_state,
                             game_state.character_states, game_state.narrative_state)
    /\ ret' = [op |-> "quick_save", slot |-> slot, id |-> QuickSaveId(slot), exc |-> "none",
               before |-> files]
    /\ UNCHANGED <<now, uuids, sessionVars, engineVars, uiVars, writers>>

QuickLoad(slot) ==
    /\ ret' = [op |-> "quick_load", slot |-> slot, id |-> QuickSaveId(slot),
               res |-> LoadGame(files, QuickSaveId(slot)), before |-> files]
    /\ UNCHANGED <<storeVars, sessionVars, engineVars, uiVars, writers>>

CreateAutosave(game_state) ==
    /\ RoomFor(AutosaveId(now))
    /\ files' = FilesAfterSave(files, AutosaveId(now), now, game_state.story_state,
                               game_state.character_states, game_state.narrative_state,
                               AutosaveMetadata(now))
    /\ hist' = HistAfterSave(hist, AutosaveId(now), "create_autosave", game_state.story_state,
                             game_state.character_states, game_state.narrative_state)
    /\ ret' = [op |-> "create_autosave", id |-> AutosaveId(now), exc |-> "none",
               data |-> game_state, before |-> files]
    /\ UNCHANGED <<now, uuids, sessionVars, engineVars, uiVars, writers>>

\* the wall clock advances
Tick ==
    /\ now < MaxNow
    /\ now' = now + 1
    /\ ret' = [op |-> "tick"]
    /\ UNCHANGED <<files, uuids, hist, sessionVars, engineVars, uiVars, writers>>

\* a save file at rest is damaged from outside the program
CorruptFile(save_id, content) ==
    /\ GetSavePath(save_id) \in DOMAIN files
    /\ files' = WriteFile(files, GetSavePath(save_id), content)
    /\ hist' = [i \in DOMAIN hist |-> IF i = save_id THEN [hist[i] EXCEPT !.intact = FALSE] ELSE hist[i]]
    /\ ret' = [op |-> "corrupt", id |-> save_id]
    /\ UNCHANGED <<now, uuids, sessionVars, engineVars, uiVars, writers>>

----------------------------------------------------------------------------
(* The specification of the save store under a caller that uses its whole API *)

\* the sessions that share the save directory, none of them saving
Sessions == {"s1", "s2"}
Idle == [at |-> "idle"]

\* the loop of create_story_scene waits at its menu
AtMenu == [at |-> "menu"]

\* init_session_state
InitSessionState == [current_developments |-> None, custom_choice |-> "", story_history |-> <<>>]

\* branching_factor, a decimal: n / 10^e
InitialBranchingFactor == [n |-> 1, e |-> 0]

InitStore ==
    /\ files = EmptyDict
    /\ now = 0
    /\ uuids = 0
    /\ hist = EmptyDict
    /\ story_state = "init"
    /\ characters = EmptyDict
    /\ current_developments = None
    /\ branching_factor = InitialBranchingFactor
    /\ history = <<>>
    /\ writers = [s \in Sessions |-> Idle]
    /\ pc = AtMenu
    /\ session_state = InitSessionState
    /\ ret = [op |-> "init"]

NextStore ==
    \/ \E gs \in GameStates, id \in SaveIds, m \in ManualMetadata :
          SaveGameWithId(gs.story_state, gs.character_states, gs.narrative_state, id, m)
    \/ \E gs \in GameStates, m \in ManualMetadata :
          SaveGameNewId(gs.story_state, gs.character_states, gs.narrative_state, m)
    \/ \E id \in SaveIds : LoadGameCall(id)
    \/ ListSavesCall
    \/ \E id \in SaveIds : DeleteSave(id)
    \/ \E gs \in GameStates, s \in Slots : QuickSave(gs, s)
    \/ \E s \in Slots : QuickLoad(s)
    \/ \E gs \in GameStates : CreateAutosave(gs)
    \/ Tick

SpecStore == InitStore /\ [][NextStore]_vars

----------------------------------------------------------------------------
(* The specification of the save store with save files damaged at rest *)

\* the state saved by test_list_saves
ListedGameStates == {gs \in GameStates : gs.story_state = "lab"}

NextList ==
    \/ \E gs \in ListedGameStates :
          SaveGameNewId(gs.story_state, gs.character_states, gs.narrative_state, None)
    \/ \E gs \in ListedGameStates, s \in Slots : QuickSave(gs, s)
    \/ \E id \in SaveIds, c \in CorruptContents : CorruptFile(id, c)
    \/ \E id \in SaveIds : LoadGameCall(id)
    \/ \E s \in Slots : QuickLoad(s)
    \/ ListSavesCall
    \/ \E id \in SaveIds : DeleteSave(id)
    \/ Tick

SpecList == InitStore /\ [][NextList]_vars

----------------------------------------------------------------------------
(* Text of the generation service *)

\* a piece of text as the service returns it: its body, maybe padded with blanks
Text(body) == [pad |-> TRUE, body |-> body]

\* str.strip()
Strip(text) == text.body

\* the generation service raises
LLMError == [raised |-> "Exception"]

----------------------------------------------------------------------------
(* DramaManager *)

FallbackAnalysis ==
    [analysis |->
        [conflicts |-> <<"Unresolved tension">>,
         emotions |-> [default |-> "uncertain"],
         plot_opportunities |-> <<"Continue current arc">>,
         themes |-> <<"Mystery">>]]

\* what the analysis chain (prompt, service, JSON parser) yields: the parsed
\* JSON value, or an exception of the service or of the parser
ParsedAnalysis ==
    [analysis |->
        [conflicts |-> <<"Trust">>,
         emotions |-> [sarah |-> "afraid"],
         plot_opportunities |-> <<"Betrayal">>,
         themes |-> <<"Ethics">>]]
ParsedWithoutAnalysis == [summary |-> "tense"]
ParseError == [raised |-> "OutputParserException"]
AnalysisOutcomes == {ParsedAnalysis, ParsedWithoutAnalysis, LLMError, ParseError}

Raised(outcome) == "raised" \in DOMAIN outcome

\* character_responses.items(): a mapping has it, other values do not
IsMapping(v) == "py" \notin DOMAIN v
NotAMapping == [py |-> "str"]

AnalyzeDramaticElements_Raises(character_responses, outcome) ==
    CASE ~IsMapping(character_responses) -> [exc |-> "AttributeError"]
      [] Raised(outcome) -> [exc |-> outcome.raised]
      [] OTHER -> [exc |-> "none", value |-> outcome]
AnalyzeDramaticElements(character_responses, outcome) ==
    CASE ~IsMapping(character_responses) -> [exc |-> "AttributeError"]
      [] Raised(outcome) -> [exc |-> "none", value |-> FallbackAnalysis]
      [] OTHER -> [exc |-> "none", value |-> outcome]

\* drama_enhancement_template is assigned after the return statement of
\* _create_analysis_template, so no DramaManager has the attribute
HasEnhancementTemplate == FALSE

EnhanceResponse(response, outcome) ==
    IF ~HasEnhancementTemplate \/ Raised(outcome)
    THEN [exc |-> "none", value |-> response]
    ELSE [exc |-> "none", value |-> Strip(outcome)]

EnhanceOutcomes == {Text("He whispers."), LLMError}

----------------------------------------------------------------------------
(* NarrativeEngine *)

MaxChoices == 3             \* config.game_settings['max_choices']
MaxBranchingDigits == 4     \* decimal digits branching_factor may grow to
MaxHistory == 1             \* developments the engine's history may hold

RECURSIVE Pow10(_)
Pow10(k) == IF k = 0 THEN 1 ELSE 10 * Pow10(k - 1)

RECURSIVE Normalize(_)
Normalize(d) ==
    IF d.e > 0 /\ d.n % 10 = 0 THEN Normalize([n |-> d.n \div 10, e |-> d.e - 1]) ELSE d

CalculateActionImpact_Uncapped(bf) ==
    Normalize([n |-> 2 * Pow10(bf.e) + 3 * bf.n, e |-> bf.e + 1])
\* min(1.0, 0.2 + (self.branching_factor * 0.3))
CalculateActionImpact(bf) ==
    LET sum == 2 * Pow10(bf.e) + 3 * bf.n
        one == Pow10(bf.e + 1) IN
    Normalize([n |-> IF sum < one THEN sum ELSE one, e |-> bf.e + 1])

LastThree_WholeList(choices) == choices
\* choices[-3:]
LastThree(choices) ==
    IF Len(choices) <= 3 THEN choices ELSE SubSeq(choices, Len(choices) - 2, Len(choices))

UpdateBranchingFactor_Shrinks(bf, choices) ==
    LET last == LastThree(choices)
        unique_choices == Cardinality({last[i] : i \in DOMAIN last}) IN
    Normalize([n |-> bf.n * (10 - unique_choices), e |-> bf.e + 1])
\* self.branching_factor *= 1 + (unique_choices * 0.1)
UpdateBranchingFactor(bf, choices) ==
    LET last == LastThree(choices)
        unique_choices == Cardinality({last[i] : i \in DOMAIN last}) IN
    Normalize([n |-> bf.n * (10 + unique_choices), e |-> bf.e + 1])

\* a line of a reply, stripped: the keyword it starts with, whether a ':'
\* follows somewhere in it, and the text after the first ':'
Line(key, colon, body) == [key |-> key, colon |-> colon, text |-> Text(body)]

DefaultDevelopment ==
    [tags |-> <<>>,
     description |-> "Default narrative progression",
     possible_actions |-> <<>>,
     new_situation |-> "Continuing story"]

\* the loop of _parse_development over the lines of a reply
RECURSIVE ParseLines(_, _, _, _, _)
ParseLines(lines, development, actions, bf, enhance) ==
    IF lines = <<>>
    THEN [exc |-> "none", value |-> [development EXCEPT !.possible_actions = actions]]
    ELSE LET line == Head(lines)
             rest == Tail(lines) IN
         CASE line.key = "DESCRIPTION" /\ line.colon ->
                 ParseLines(rest,
                            [development EXCEPT
                                !.description = EnhanceResponse(Strip(line.text), enhance).value],
                            actions, bf, enhance)
           [] line.key = "SITUATION" /\ line.colon ->
                 ParseLines(rest, [development EXCEPT !.new_situation = Strip(line.text)],
                            actions, bf, enhance)
           [] line.key = "TWIST" /\ line.colon ->
                 ParseLines(rest,
                            [k \in DOMAIN development \cup {"twist"} |->
                                CASE k = "twist" -> Strip(line.text)
                                  [] k = "tags" -> Append(development.tags, "plot_twist")
                                  [] OTHER -> development[k]],
                            actions, bf, enhance)
           [] line.key = "ACTION" ->
                 IF line.colon
                 THEN ParseLines(rest, development,
                                 Append(actions, [text |-> Strip(line.text),
                                                  impact |-> CalculateActionImpact(bf)]),
                                 bf, enhance)
                 ELSE [exc |-> "IndexError"]
           [] OTHER -> ParseLines(rest, development, actions, bf, enhance)

ParseDevelopment_TagsAlways(response, bf, enhance) ==
    LET parsed == ParseLines(response.lines, DefaultDevelopment, <<>>, bf, enhance) IN
    IF parsed.exc # "none"
    THEN parsed
    ELSE [exc |-> "none", value |-> [parsed.value EXCEPT !.tags = <<"plot_twist">>]]
ParseDevelopment(response, bf, enhance) ==
    ParseLines(response.lines, DefaultDevelopment, <<>>, bf, enhance)

\* config.fallbacks['default_development']
FallbackDevelopments ==
    [developments |->
        <<[description |-> "The story continues",
           new_situation |-> "The situation develops",
           possible_actions |-> <<>>]>>]

\* the for loop of generate_developments from its i-th pass on: the
\* developments, or the first exception
\* the calls one generate_developments makes, in their order
Analyze == [call |-> "analyze_dramatic_elements"]
Invoke(number) == [call |-> "development_chain.invoke", number |-> number]

RECURSIVE DevelopmentLoop_UpdatesEachPass(_, _, _, _, _)
DevelopmentLoop_UpdatesEachPass(i, replies, developments, bf, enhance) ==
    IF i > MaxChoices
    THEN [exc |-> "none", value |-> developments, calls |-> <<>>]
    ELSE IF Raised(replies[i])
         THEN [exc |-> replies[i].raised, calls |-> <<Invoke(i)>>]
         ELSE LET parsed == ParseDevelopment(replies[i], bf, enhance) IN
              IF parsed.exc # "none"
              THEN [exc |-> parsed.exc, calls |-> <<Invoke(i)>>]
              ELSE LET rest == DevelopmentLoop_UpdatesEachPass(
                                   i + 1, replies, Append(developments, parsed.value),
                                   UpdateBranchingFactor(bf, <<i>>), enhance) IN
                   [rest EXCEPT !.calls = <<Invoke(i)>> \o @]

RECURSIVE DevelopmentLoop_Prepends(_, _, _, _, _)
DevelopmentLoop_Prepends(i, replies, developments, bf, enhance) ==
    IF i > MaxChoices
    THEN [exc |-> "none", value |-> developments, calls |-> <<>>]
    ELSE IF Raised(replies[i])
         THEN [exc |-> replies[i].raised, calls |-> <<Invoke(i)>>]
         ELSE LET parsed == ParseDevelopment(replies[i], bf, enhance) IN
              IF parsed.exc # "none"
              THEN [exc |-> parsed.exc, calls |-> <<Invoke(i)>>]
              ELSE LET rest == DevelopmentLoop_Prepends(
                                   i + 1, replies, <<parsed.value>> \o developments,
                                   bf, enhance) IN
                   [rest EXCEPT !.calls = <<Invoke(i)>> \o @]

RECURSIVE DevelopmentLoop(_, _, _, _, _)
DevelopmentLoop(i, replies, developments, bf, enhance) ==
    IF i > MaxChoices
    THEN [exc |-> "none", value |-> developments, calls |-> <<>>]
    ELSE IF Raised(replies[i])
         THEN [exc |-> replies[i].raised, calls |-> <<Invoke(i)>>]
         ELSE LET parsed == ParseDevelopment(replies[i], bf, enhance) IN
              IF parsed.exc # "none"
              THEN [exc |-> parsed.exc, calls |-> <<Invoke(i)>>]
              ELSE LET rest == DevelopmentLoop(i + 1, replies,
                                                   Append(developments, parsed.value),
                                                   bf, enhance) IN
                   [rest EXCEPT !.calls = <<Invoke(i)>> \o @]

TryGenerate_UpdatesBeforeLoop(context, bf, analysis, replies, enhance) ==
    IF "character_responses" \notin DOMAIN context
    THEN [exc |-> "KeyError", bf |-> bf, calls |-> <<>>]
    ELSE LET drama_analysis == AnalyzeDramaticElements(context.character_responses, analysis)
             updated == IF "choices_made" \in DOMAIN context
                        THEN UpdateBranchingFactor(bf, context.choices_made)
                        ELSE bf IN
         CASE drama_analysis.exc # "none" ->
                [exc |-> drama_analysis.exc, bf |-> bf, calls |-> <<Analyze>>]
           [] "analysis" \notin DOMAIN drama_analysis.value ->
                [exc |-> "KeyError", bf |-> bf, calls |-> <<Analyze>>]
           [] OTHER ->
                LET loop == DevelopmentLoop(1, replies, <<>>, bf, enhance) IN
                IF loop.exc # "none"
                THEN [exc |-> loop.exc, bf |-> updated, calls |-> <<Analyze>> \o loop.calls]
                ELSE [exc |-> "none",
                      value |-> [developments |-> loop.value],
                      calls |-> <<Analyze>> \o loop.calls,
                      bf |-> updated]

\* the body of the try statement of generate_developments
TryGenerate(context, bf, analysis, replies, enhance) ==
    IF "character_responses" \notin DOMAIN context
    THEN [exc |-> "KeyError", bf |-> bf, calls |-> <<>>]
    ELSE LET drama_analysis == AnalyzeDramaticElements(context.character_responses, analysis) IN
         CASE drama_analysis.exc # "none" ->
                [exc |-> drama_analysis.exc, bf |-> bf, calls |-> <<Analyze>>]
           [] "analysis" \notin DOMAIN drama_analysis.value ->
                [exc |-> "KeyError", bf |-> bf, calls |-> <<Analyze>>]
           [] OTHER ->
                LET loop == DevelopmentLoop(1, replies, <<>>, bf, enhance) IN
                IF loop.exc # "none"
                THEN [exc |-> loop.exc, bf |-> bf, calls |-> <<Analyze>> \o loop.calls]
                ELSE [exc |-> "none",
                      value |-> [developments |-> loop.value],
                      calls |-> <<Analyze>> \o loop.calls,
                      bf |-> IF "choices_made" \in DOMAIN context
                             THEN UpdateBranchingFactor(bf, context.choices_made)
                             ELSE bf]

GenerateDevelopments_CatchesServiceErrorsOnly(context, bf, analysis, replies, enhance) ==
    LET try == TryGenerate(context, bf, analysis, replies, enhance) IN
    IF try.exc = "Exception"
    THEN [exc |-> "none", value |-> FallbackDevelopments, bf |-> try.bf,
          calls |-> try.calls]
    ELSE try
GenerateDevelopments(context, bf, analysis, replies, enhance) ==
    LET try == TryGenerate(context, bf, analysis, replies, enhance) IN
    IF try.exc # "none"
    THEN [exc |-> "none", value |-> FallbackDevelopments, bf |-> try.bf,
          calls |-> try.calls]
    ELSE try

----------------------------------------------------------------------------
(* Inputs of the engine's callers and replies of the generation service *)

\* what the development chain yields: the reply's lines, or an exception
Reply(lines) == [lines |-> lines]

GoodReply ==
    Reply(<<Line("DESCRIPTION", TRUE, "A loud crash echoes"),
      Line("SITUATION", TRUE, "Power systems failing"),
      Line("ACTION", TRUE, "Investigate noise"),
      Line("ACTION", TRUE, "Check security feeds")>>)
TwistReply ==
    Reply(<<Line("DESCRIPTION", TRUE, "A door opens"),
      Line("SITUATION", TRUE, "A chamber is revealed"),
      Line("TWIST", TRUE, "Hidden chamber revealed"),
      Line("ACTION", TRUE, "Enter")>>)
GarbageReply == Reply(<<Line("OTHER", FALSE, "")>>)
ActionWithoutColon ==
    Reply(<<Line("DESCRIPTION", TRUE, "A loud crash echoes"),
      Line("ACTION", FALSE, "")>>)
EmptySituationReply ==
    Reply(<<Line("DESCRIPTION", TRUE, "The lights go out"),
            Line("SITUATION", TRUE, ""),
            Line("ACTION", TRUE, "Wait")>>)
KeywordsWithoutColon ==
    Reply(<<Line("DESCRIPTION", FALSE, ""),
            Line("SITUATION", FALSE, ""),
            Line("TWIST", FALSE, "")>>)
ParsedReplies ==
    {GoodReply, TwistReply, GarbageReply, ActionWithoutColon, EmptySituationReply,
     KeywordsWithoutColon}
Replies == {GoodReply, ActionWithoutColon, LLMError}

ChoiceLists == {<<1, 2, 1>>, <<1, 2, 3>>}

Contexts ==
    {[current_state |-> "lab", character_responses |-> [sarah |-> "response"],
      theme |-> "scientific ethics"],
     [current_state |-> "lab", character_responses |-> NotAMapping,
      theme |-> "scientific ethics"],
     [current_state |-> "lab", theme |-> "scientific ethics"]}
    \cup
    {[current_state |-> "lab", character_responses |-> [sarah |-> "response"],
      theme |-> "scientific ethics", choices_made |-> c] : c \in ChoiceLists}

ContextsWithoutChoices == {c \in Contexts : "choices_made" \notin DOMAIN c}
WellFormedContexts ==
    {c \in Contexts : "character_responses" \in DOMAIN c /\ IsMapping(c.character_responses)}

\* the choice lists handed to _update_branching_factor
UpdateChoiceLists == {<<>>, <<1, 2, 3>>, <<1, 1, 1>>, <<1, 2, 1>>, <<2, 3, 1, 1, 1>>}

\* the developments handed to record_development
RecordedDevelopments ==
    {ParseDevelopment(GoodReply, InitialBranchingFactor, LLMError).value}

\* replies to the generation calls of one generate_developments
BranchingReplies ==
    {[i \in 1 .. MaxChoices |-> GoodReply],
     [i \in 1 .. MaxChoices |-> TwistReply],
     [i \in 1 .. MaxChoices |-> IF i < MaxChoices THEN GoodReply ELSE LLMError],
     [i \in 1 .. MaxChoices |->
         CASE i = 1 -> GoodReply [] i = 2 -> TwistReply [] OTHER -> EmptySituationReply]}

----------------------------------------------------------------------------
(* The operations of the drama manager and of the engine *)

AnalyzeCall(character_responses, outcome) ==
    /\ ret' = [op |-> "analyze", outcome |-> outcome,
               res |-> AnalyzeDramaticElements(character_responses, outcome)]
    /\ UNCHANGED <<storeVars, sessionVars, engineVars, uiVars, writers>>

EnhanceCall(response, outcome) ==
    /\ ret' = [op |-> "enhance", response |-> response, outcome |-> outcome,
               res |-> EnhanceResponse(response, outcome)]
    /\ UNCHANGED <<storeVars, sessionVars, engineVars, uiVars, writers>>

ParseDevelopmentCall(response, enhance) ==
    /\ ret' = [op |-> "_parse_development", response |-> response, enhance |-> enhance,
               bf |-> branching_factor,
               res |-> ParseDevelopment(response, branching_factor, enhance)]
    /\ UNCHANGED <<storeVars, sessionVars, engineVars, uiVars, writers>>

GenerateDevelopmentsCall(context, analysis, replies, enhance) ==
    LET res == GenerateDevelopments(context, branching_factor, analysis, replies, enhance) IN
    /\ res.bf.e <= MaxBranchingDigits
    /\ branching_factor' = res.bf
    /\ ret' = [op |-> "generate_developments", context |-> context, analysis |-> analysis,
               replies |-> replies, bf |-> branching_factor, history |-> history,
               calls |-> res.calls,
               res |-> [k \in DOMAIN res \ {"bf", "calls"} |-> res[k]]]
    /\ UNCHANGED <<storeVars, sessionVars, history, uiVars, writers>>

\* _update_branching_factor called by itself
UpdateBranchingFactorCall(choices) ==
    LET bf == UpdateBranchingFactor(branching_factor, choices) IN
    /\ bf.e <= MaxBranchingDigits
    /\ branching_factor' = bf
    /\ ret' = [op |-> "_update_branching_factor", choices |-> choices,
               before |-> branching_factor]
    /\ UNCHANGED <<storeVars, sessionVars, history, uiVars, writers>>

\* record_development
RecordDevelopment(development) ==
    /\ Len(history) < MaxHistory
    /\ history' = Append(history,
                         [description |-> development.description,
                          choices |-> Len(development.possible_actions),
                          tags |-> IF "tags" \in DOMAIN development
                                   THEN development.tags
                                   ELSE <<>>])
    /\ ret' = [op |-> "record_development", before |-> history]
    /\ UNCHANGED <<storeVars, sessionVars, branching_factor, uiVars, writers>>

NextEngine ==
    \/ \E o \in AnalysisOutcomes : AnalyzeCall([sarah |-> "response"], o)
    \/ \E r \in {"I know.", ""}, o \in EnhanceOutcomes : EnhanceCall(r, o)
    \/ \E r \in ParsedReplies, e \in EnhanceOutcomes : ParseDevelopmentCall(r, e)
    \/ \E c \in ContextsWithoutChoices, a \in AnalysisOutcomes \ {ParseError},
          r \in [1 .. MaxChoices -> Replies],
          e \in EnhanceOutcomes :
          GenerateDevelopmentsCall(c, a, r, e)

SpecEngine == InitStore /\ [][NextEngine]_vars

----------------------------------------------------------------------------
(* The specification of the engine under choices that move the branching factor *)

NextBranching ==
    \/ \E c \in UpdateChoiceLists : UpdateBranchingFactorCall(c)
    \/ \E d \in RecordedDevelopments : RecordDevelopment(d)
    \/ \E r \in ParsedReplies, e \in EnhanceOutcomes : ParseDevelopmentCall(r, e)
    \/ \E c \in WellFormedContexts, r \in BranchingReplies, e \in EnhanceOutcomes :
          GenerateDevelopmentsCall(c, ParsedAnalysis, r, e)

SpecBranching == InitStore /\ [][NextBranching]_vars

----------------------------------------------------------------------------
(* Character *)

MaxMessages == 5        \* messages the memories of all characters may hold

HumanMessage(content) == [type |-> "human", content |-> content]
AIMessage(content) == [type |-> "ai", content |-> content]

\* Character.__init__: the traits and an empty memory
NewCharacter(name, personality, background) ==
    [name |-> name, personality |-> personality, background |-> background,
     memory |-> <<>>]

\* the attributes of the memory object of a Character: a checkpointer
\* (MemorySaver) of the graph library
MemoryAttributes == {"storage", "writes", "get", "get_tuple", "list", "put", "put_writes"}
HasAttr(attr) == attr \in MemoryAttributes

\* the messages of the memory after respond: the input and the reply after a
\* reply of the service; after an exception of the service the memory as it
\* was (main.py writes it after the call returned) or with the input alone
\* (the checkpointer of character.py has stored the input when the node runs)
MemoryAfterRespond_KeepsLatestOnly(memory, input_text, llm, checkpointed) ==
    IF Raised(llm)
    THEN IF checkpointed THEN Append(memory, HumanMessage(input_text)) ELSE memory
    ELSE <<HumanMessage(input_text), AIMessage(llm.text)>>
MemoryAfterRespond(memory, input_text, llm, checkpointed) ==
    IF Raised(llm)
    THEN IF checkpointed THEN Append(memory, HumanMessage(input_text)) ELSE memory
    ELSE memory \o <<HumanMessage(input_text), AIMessage(llm.text)>>

\* what respond gives its caller: the reply of the service, or its exception
RespondResult_FallbackText(llm) ==
    IF Raised(llm)
    THEN [exc |-> "none", value |-> ""]
    ELSE [exc |-> "none", value |-> llm.text]
RespondResult(llm) ==
    IF Raised(llm)
    THEN [exc |-> llm.raised]
    ELSE [exc |-> "none", value |-> llm.text]

\* the memory read as exchanges: each input with the reply that follows it
RECURSIVE Exchanges(_)
Exchanges(memory) ==
    IF Len(memory) < 2
    THEN <<>>
    ELSE IF memory[1].type = "human" /\ memory[2].type = "ai"
         THEN <<(<<memory[1].content, memory[2].content>>)>>
                  \o Exchanges(SubSeq(memory, 3, Len(memory)))
         ELSE Exchanges(Tail(memory))

\* the service's answers to a character's prompt
CharacterReplies == {[text |-> "I saw nothing."], [text |-> "Run!"], LLMError}
InputTexts == {"A loud crash echoes"}

----------------------------------------------------------------------------
(* GameState *)

Names == {"Sarah", "Webb"}

\* config.characters
ConfigCharacters ==
    [n \in Names |-> [name |-> n, personality |-> "driven", background |-> "scientist"]]

\* config.initial_state, joined by _format_initial_state
FormatInitialState == "Location: lab" \o "\n" \o "Time: night" \o "\n" \o "Current situation: alone"

Session(story, chars, developments) ==
    [story_state |-> story, characters |-> chars, current_developments |-> developments]

\* d.get(key, default)
DictGet(d, key, default) == IF key \in DOMAIN d THEN d[key] ELSE default

\* the truth value of current_developments: None and {} are false
Truthy(v) == v # None /\ v # EmptyDict

PrepareSaveData(session, t) ==
    [story_state |->
        [current_scene |-> session.story_state, timestamp |-> IsoFormat(t)],
     character_states |->
        [n \in DOMAIN session.characters |->
            [personality |-> session.characters[n].personality,
             background |-> session.characters[n].background,
             memory |-> IF HasAttr("memories")
                        THEN session.characters[n].memory
                        ELSE <<>>]],
     narrative_state |->
        [developments |-> IF Truthy(session.current_developments)
                          THEN session.current_developments.developments
                          ELSE <<>>]]

\* the Character that load_save_data creates for a saved name it does not hold
CharacterFromSave(name, state) ==
    LET char_config == DictGet(ConfigCharacters, name, EmptyDict) IN
    NewCharacter(DictGet(state, "name", DictGet(char_config, "name", None)),
                 DictGet(state, "personality", DictGet(char_config, "personality", None)),
                 DictGet(state, "background", DictGet(char_config, "background", None)))

\* memory.restore(state["memory"]), when the memory object has a restore
RestoreMemory(character, state) ==
    IF HasAttr("restore") THEN [character EXCEPT !.memory = state.memory] ELSE character

LoadSaveData_ReplacesRoster(session, save_data) ==
    LET saved == save_data.character_states IN
    Session(save_data.story_state.current_scene,
            [n \in DOMAIN saved |-> CharacterFromSave(n, saved[n])],
            IF "developments" \in DOMAIN save_data.narrative_state
            THEN [developments |-> save_data.narrative_state.developments]
            ELSE session.current_developments)
\* the roster after the loop of load_save_data over the saved characters
LoadedCharacters(session, saved) ==
    [n \in DOMAIN session.characters \cup DOMAIN saved |->
        IF n \notin DOMAIN saved
        THEN session.characters[n]
        ELSE RestoreMemory(IF n \in DOMAIN session.characters
                           THEN session.characters[n]
                           ELSE CharacterFromSave(n, saved[n]),
                           saved[n])]

LoadSaveData(session, save_data) ==
    Session(save_data.story_state.current_scene,
            LoadedCharacters(session, save_data.character_states),
            IF "developments" \in DOMAIN save_data.narrative_state
            THEN [developments |-> save_data.narrative_state.developments]
            ELSE session.current_developments)

\* load_save_data over a snapshot that may lack a field: the statements run
\* in their order, and the first missing key ends them with KeyError
TryLoadSaveData(session, save_data) ==
    CASE "story_state" \notin DOMAIN save_data ->
            [exc |-> "KeyError", session |-> session]
      [] "character_states" \notin DOMAIN save_data ->
            [exc |-> "KeyError",
             session |-> Session(save_data.story_state.current_scene, session.characters,
                                 session.current_developments)]
      [] "narrative_state" \notin DOMAIN save_data ->
            [exc |-> "KeyError",
             session |-> Session(save_data.story_state.current_scene,
                                 LoadedCharacters(session, save_data.character_states),
                                 session.current_developments)]
      [] OTHER -> [exc |-> "none", session |-> LoadSaveData(session, save_data)]

\* load_save_data(load_game(..)) inside try .. except FileNotFoundError
LoadIntoSession_ResetsOnFailure(session, loaded) ==
    IF loaded.exc # "none"
    THEN [exc |-> loaded.exc, session |-> Session(FormatInitialState, session.characters, None)]
    ELSE [exc |-> "none", session |-> LoadSaveData(session, loaded.value)]
LoadIntoSession(session, loaded) ==
    IF loaded.exc # "none"
    THEN [exc |-> loaded.exc, session |-> session]
    ELSE [exc |-> "none", session |-> LoadSaveData(session, loaded.value)]

RECURSIVE TotalMessages(_, _)
TotalMessages(chars, names) ==
    IF names = {}
    THEN 0
    ELSE LET n == CHOOSE x \in names : TRUE IN
         Len(chars[n].memory) + TotalMessages(chars, names \ {n})

\* the development sets the engine hands the session
SessionContext(story) ==
    [current_state |-> story, character_responses |-> [sarah |-> "response"],
     theme |-> "scientific ethics"]
SessionReplies == {[i \in 1 .. MaxChoices |-> GoodReply], [i \in 1 .. MaxChoices |-> LLMError]}

----------------------------------------------------------------------------
(* The operations of the session *)

CurrentSession == Session(story_state, characters, current_developments)

\* menu option 2
MenuQuickSave ==
    LET game_state == PrepareSaveData(CurrentSession, now) IN
    /\ RoomFor(QuickSaveId(0))
    /\ files' = FilesAfterSave(files, QuickSaveId(0), now, game_state.story_state,
                               game_state.character_states, game_state.narrative_state,
                               QuickSaveMetadata(0))
    /\ hist' = HistAfterSave(hist, QuickSaveId(0), "quick_save", game_state.story_state,
                             game_state.character_states, game_state.narrative_state)
    /\ ret' = [op |-> "menu_quick_save", id |-> QuickSaveId(0), exc |-> "none",
               snapshot |-> game_state]
    /\ UNCHANGED <<now, uuids, sessionVars, engineVars, uiVars, writers>>

AssignSession(session) ==
    /\ story_state' = session.story_state
    /\ characters' = session.characters
    /\ current_developments' = session.current_developments

\* menu option 3
MenuQuickLoad ==
    LET loaded == LoadGame(files, QuickSaveId(0))
        res == LoadIntoSession(CurrentSession, loaded) IN
    /\ AssignSession(res.session)
    /\ ret' = [op |-> "menu_load", id |-> QuickSaveId(0), exc |-> res.exc,
               loaded |-> loaded, before |-> CurrentSession]
    /\ UNCHANGED <<storeVars, engineVars, uiVars, writers>>

\* menu option 5, a save id entered
MenuLoadGame(save_id) ==
    LET saves == ListSaves(files)
        loaded == LoadGame(files, save_id)
        res == LoadIntoSession(CurrentSession, loaded) IN
    /\ saves.exc = "none"
    /\ saves.value # EmptyDict
    /\ AssignSession(res.session)
    /\ ret' = [op |-> "menu_load", id |-> save_id, exc |-> res.exc,
               loaded |-> loaded, before |-> CurrentSession]
    /\ UNCHANGED <<storeVars, engineVars, uiVars, writers>>

\* the developments of the turn are generated and kept
GenerateStep(replies) ==
    /\ current_developments' =
          GenerateDevelopments(SessionContext(story_state), branching_factor,
                               ParsedAnalysis, replies, LLMError).value
    /\ ret' = [op |-> "generate"]
    /\ UNCHANGED <<storeVars, story_state, characters, engineVars, uiVars, writers>>

\* the chosen development becomes the situation
ChooseStep(choice) ==
    /\ Truthy(current_developments)
    /\ choice + 1 \in DOMAIN current_developments.developments
    /\ story_state' = current_developments.developments[choice + 1].new_situation
    /\ ret' = [op |-> "choose", choice |-> choice]
    /\ UNCHANGED <<storeVars, characters, current_developments, engineVars, uiVars, writers>>

\* Character.respond of the character called name
CharacterRespond(name, input_text, llm, checkpointed) ==
    /\ TotalMessages(characters, Names) + 2 <= MaxMessages
    /\ characters' =
          [characters EXCEPT
              ![name].memory = MemoryAfterRespond(@, input_text, llm, checkpointed)]
    /\ ret' = [op |-> "respond", name |-> name, input |-> input_text, llm |-> llm,
               res |-> RespondResult(llm), before |-> characters]
    /\ UNCHANGED <<storeVars, story_state, current_developments, engineVars, uiVars, writers>>

InitSession ==
    /\ files = EmptyDict
    /\ now = 0
    /\ uuids = 0
    /\ hist = EmptyDict
    /\ story_state = FormatInitialState
    /\ characters = [n \in Names |->
                        NewCharacter(ConfigCharacters[n].name,
                                     ConfigCharacters[n].personality,
                                     ConfigCharacters[n].background)]
    /\ current_developments = None
    /\ branching_factor = InitialBranchingFactor
    /\ history = <<>>
    /\ writers = [s \in Sessions |-> Idle]
    /\ pc = AtMenu
    /\ session_state = InitSessionState
    /\ ret = [op |-> "init"]

NextSession ==
    \/ MenuQuickSave
    \/ MenuQuickLoad
    \/ \E id \in SaveIds : MenuLoadGame(id)
    \/ \E r \in SessionReplies : GenerateStep(r)
    \/ \E c \in 0 .. MaxChoices - 1 : ChooseStep(c)
    \/ \E n \in Names, i \in InputTexts, l \in CharacterReplies, k \in BOOLEAN :
          CharacterRespond(n, i, l, k)

SpecSession == InitSession /\ [][NextSession]_vars

----------------------------------------------------------------------------
(* The menu loop of create_story_scene *)

\* GameState.playtime_start, the clock at construction
PlaytimeStart == 0

\* get_playtime: the hours and minutes of delta.seconds (the seconds of the
\* delta within its last day), the seconds as 00
GetPlaytime(t) ==
    LET seconds == (t - PlaytimeStart) % 86400 IN
    [hours |-> seconds \div 3600,
     minutes |-> (seconds % 3600) \div 60,
     seconds |-> 0]

\* the replies of the generation service to the calls of one turn
TurnReplies ==
    {[i \in 1 .. MaxChoices |-> GoodReply],
     [i \in 1 .. MaxChoices |-> EmptySituationReply],
     [i \in 1 .. MaxChoices |-> LLMError]}

\* the service's answers to the characters of one turn
TurnCharacterReplies == {[text |-> "Run!"], LLMError}

\* the snapshot of a session that ran under another configuration
ForeignSnapshots ==
    {[story_state |-> [current_scene |-> "Location: ship", timestamp |-> IsoFormat(0)],
      character_states |->
          [n \in {"Eve"} |-> [personality |-> "sly", background |-> "pilot", memory |-> <<>>]],
      narrative_state |-> [developments |-> <<>>]]}

Crashed(exc) == [at |-> "crashed", exc |-> exc]

\* menu option 4
MenuSaveGame ==
    LET game_state == PrepareSaveData(CurrentSession, now) IN
    /\ pc = AtMenu
    /\ SaveGameNewId(game_state.story_state, game_state.character_states,
                     game_state.narrative_state,
                     [playtime |-> GetPlaytime(now), save_date |-> IsoFormat(now)])

\* menu option 6: an autosave, then the loop ends
MenuExit ==
    LET game_state == PrepareSaveData(CurrentSession, now) IN
    /\ pc = AtMenu
    /\ RoomFor(AutosaveId(now))
    /\ files' = FilesAfterSave(files, AutosaveId(now), now, game_state.story_state,
                               game_state.character_states, game_state.narrative_state,
                               AutosaveMetadata(now))
    /\ hist' = HistAfterSave(hist, AutosaveId(now), "create_autosave", game_state.story_state,
                             game_state.character_states, game_state.narrative_state)
    /\ pc' = [at |-> "exited"]
    /\ ret' = [op |-> "menu_exit", id |-> AutosaveId(now), exc |-> "none"]
    /\ UNCHANGED <<now, uuids, sessionVars, engineVars, session_state, writers>>

\* any other menu input: the developments are generated and shown, and the
\* loop waits for the number of an action
ContinueStory(replies) ==
    /\ pc = AtMenu
    /\ current_developments' =
          GenerateDevelopments(SessionContext(story_state), branching_factor,
                               ParsedAnalysis, replies, LLMError).value
    /\ pc' = [at |-> "choose"]
    /\ ret' = [op |-> "continue_story", pending_before |-> current_developments]
    /\ UNCHANGED <<storeVars, story_state, characters, engineVars, session_state, writers>>

\* a number from 1 to max_choices is entered: the chosen development becomes
\* the situation, and the characters wait to respond in a shuffled order
ChooseAction(choice) ==
    LET developments == current_developments.developments IN
    /\ pc.at = "choose"
    /\ IF choice + 1 \in DOMAIN developments
       THEN /\ story_state' = developments[choice + 1].new_situation
            /\ pc' = [at |-> "respond", waiting |-> DOMAIN characters,
                      input |-> developments[choice + 1].description]
       ELSE /\ story_state' = story_state
            /\ pc' = Crashed("IndexError")
    /\ ret' = [op |-> "choose_action", choice |-> choice, before |-> story_state]
    /\ UNCHANGED <<storeVars, characters, current_developments, engineVars,
                   session_state, writers>>

\* the next character of the shuffled list responds to the input of the lead
\* or to the previous response; after the last one the turn ends with an
\* autosave when the minute of the clock is due
TurnRespond(name, llm, checkpointed, due) ==
    LET res == RespondResult(llm)
        chars == [characters EXCEPT
                     ![name].memory = MemoryAfterRespond(@, pc.input, llm, checkpointed)]
        last == pc.waiting = {name}
        game_state == PrepareSaveData(Session(story_state, chars, current_developments), now)
        autosave == res.exc = "none" /\ last /\ due IN
    /\ pc.at = "respond"
    /\ name \in pc.waiting
    /\ TotalMessages(characters, DOMAIN characters) + 2 <= MaxMessages
    /\ characters' = chars
    /\ pc' = IF res.exc # "none"
             THEN Crashed(res.exc)
             ELSE IF last
                  THEN AtMenu
                  ELSE [at |-> "respond", waiting |-> pc.waiting \ {name},
                        input |-> res.value]
    /\ IF autosave
       THEN /\ RoomFor(AutosaveId(now))
            /\ files' = FilesAfterSave(files, AutosaveId(now), now, game_state.story_state,
                                       game_state.character_states,
                                       game_state.narrative_state, AutosaveMetadata(now))
            /\ hist' = HistAfterSave(hist, AutosaveId(now), "create_autosave",
                                     game_state.story_state, game_state.character_states,
                                     game_state.narrative_state)
       ELSE UNCHANGED <<files, hist>>
    /\ ret' = [op |-> "turn_respond", name |-> name, input |-> pc.input, res |-> res,
               turn_over |-> (res.exc = "none" /\ last), autosaved |-> autosave]
    /\ UNCHANGED <<now, uuids, story_state, current_developments, engineVars,
                   session_state, writers>>

\* a session under another configuration saves into the same directory
ForeignSave(snapshot) ==
    SaveGameNewId(snapshot.story_state, snapshot.character_states,
                  snapshot.narrative_state, None)

NextTurn ==
    \/ pc = AtMenu /\ MenuQuickSave
    \/ pc = AtMenu /\ MenuQuickLoad
    \/ MenuSaveGame
    \/ pc = AtMenu /\ \E id \in SaveIds : MenuLoadGame(id)
    \/ MenuExit
    \/ \E r \in TurnReplies : ContinueStory(r)
    \/ \E c \in 0 .. MaxChoices - 1 : ChooseAction(c)
    \/ \E n \in DOMAIN characters, l \in TurnCharacterReplies, k, d \in BOOLEAN :
          TurnRespond(n, l, k, d)
    \/ \E s \in ForeignSnapshots : ForeignSave(s)

SpecTurn == InitSession /\ [][NextTurn]_vars

----------------------------------------------------------------------------
(* Saves of two sessions that overlap in time: open(save_path, 'w') empties *)
(* the file, json.dump fills the buffer of the file object, and the buffer  *)
(* reaches the file one write at a time, each at the offset of its writer   *)

\* the text of a record, cut into the buffers that are written one by one:
\* one buffer, and one more for each development the record holds
Chunks(data) ==
    [k \in 1 .. 1 + Len(data.narrative_state.developments) |->
        [of |-> data, part |-> k]]

\* the content of a file that holds these chunks: the text of a JSON object
\* when they are the whole text of one record, else no JSON text
FileText(chunks) ==
    IF chunks # <<>> /\ chunks[1].part = 1 /\ chunks = Chunks(chunks[1].of)
    THEN JsonDump(chunks[1].of)
    ELSE [json |-> "malformed", value |-> [chunks |-> chunks]]

\* the chunks a file holds
RawChunks(content) ==
    IF content.json = "object" THEN Chunks(content.value) ELSE content.value.chunks

\* write(chunk) at the k-th position of the file; the gap before the offset
\* of a write holds bytes no writer has written
WriteAt(chunks, k, chunk) ==
    [i \in 1 .. (IF Len(chunks) < k THEN k ELSE Len(chunks)) |->
        IF i = k THEN chunk ELSE IF i <= Len(chunks) THEN chunks[i]
        ELSE [of |-> [hole |-> TRUE], part |-> 0]]

\* the game states the two sessions save
OverlappingGameStates ==
    {[story_state |-> [current_scene |-> "lab", timestamp |-> IsoFormat(0)],
      character_states |-> EmptyDict,
      narrative_state |-> [developments |-> d]] :
        d \in {<<>>, FallbackDevelopments.developments}}

\* create_autosave up to and with open(save_path, 'w'): the record is built
\* and the file is created or emptied
OpenForSave(s, game_state) ==
    LET data == SaveData(AutosaveId(now), now, game_state.story_state,
                         game_state.character_states, game_state.narrative_state,
                         AutosaveMetadata(now)) IN
    /\ writers[s] = Idle
    /\ files' = WriteFile(files, GetSavePath(AutosaveId(now)), FileText(<<>>))
    /\ writers' = [writers EXCEPT ![s] = [at |-> "writing", data |-> data, offset |-> 0]]
    /\ ret' = [op |-> "open_for_save", session |-> s]
    /\ UNCHANGED <<now, uuids, hist, sessionVars, engineVars, uiVars>>

\* the next buffer of the text reaches the file; after the last one the
\* file is closed and save_game returns
WriteBuffer(s) ==
    LET data == writers[s].data
        path == GetSavePath(data.save_id)
        k == writers[s].offset + 1 IN
    /\ writers[s].at = "writing"
    /\ files' = WriteFile(files, path,
                          FileText(WriteAt(RawChunks(files[path]), k, Chunks(data)[k])))
    /\ writers' = [writers EXCEPT
                      ![s].offset = k,
                      ![s].at = IF k = Len(Chunks(data)) THEN "closed" ELSE "writing"]
    /\ ret' = [op |-> "write_buffer", session |-> s]
    /\ UNCHANGED <<now, uuids, hist, sessionVars, engineVars, uiVars>>

NextOverlap ==
    \/ \E s \in Sessions, g \in OverlappingGameStates : OpenForSave(s, g)
    \/ \E s \in Sessions : WriteBuffer(s)
    \/ LoadGameCall(AutosaveId(now))
    \/ ListSavesCall

SpecOverlap == InitStore /\ [][NextOverlap]_vars

----------------------------------------------------------------------------
(* The play time of a session that stays open *)

MaxPlaytime == 100000   \* seconds the session may stay open: more than a day
ClockStep == 1799       \* seconds between two looks at the clock

\* time passes while the session waits for its player
TimePasses ==
    /\ now + ClockStep <= MaxPlaytime
    /\ now' = now + ClockStep
    /\ ret' = [op |-> "time_passes"]
    /\ UNCHANGED <<files, uuids, hist, sessionVars, engineVars, uiVars, writers>>

\* the play time is shown or written into the metadata of a save
GetPlaytimeCall ==
    /\ ret' = [op |-> "get_playtime", at |-> now, value |-> GetPlaytime(now)]
    /\ UNCHANGED <<storeVars, sessionVars, engineVars, uiVars, writers>>

NextPlaytime ==
    \/ TimePasses
    \/ GetPlaytimeCall

SpecPlaytime == InitSession /\ [][NextPlaytime]_vars

----------------------------------------------------------------------------
(* The web front end: display_story_developments, process_choice, save_game *)
(* and load_game of app.py over st.session_state                            *)

MaxPending == 4         \* entries the pending list of the front end may reach

\* the text as typed, blanks included
Raw(text) == IF text.pad THEN " " \o text.body \o " " ELSE text.body

\* what the player may have typed into the custom action area
CustomTexts == {Text(""), Text("I open the door")}

\* config.characters.values(), in the order of the configuration
ConfigOrder == <<"Sarah", "Webb">>

\* list[:n]
Prefix(list, n) == SubSeq(list, 1, IF n < Len(list) THEN n ELSE Len(list))

\* list.insert(index, item)
Insert(list, index, item) ==
    SubSeq(list, 1, index) \o <<item>> \o SubSeq(list, index + 1, Len(list))

\* the development made of the player's text: the situation stays
CustomDevelopment(custom_text, story) ==
    [description |-> Raw(custom_text), new_situation |-> story, possible_actions |-> <<>>]

\* the first loop of generate_character_responses from the i-th character
\* on: the roster after the calls, and the exception that ended them
RECURSIVE GenerateCharacterResponses(_, _, _, _, _)
GenerateCharacterResponses(i, chars, input_text, llm, checkpointed) ==
    IF i > Len(ConfigOrder)
    THEN [exc |-> "none", characters |-> chars]
    ELSE LET name == ConfigOrder[i]
             after == [chars EXCEPT
                          ![name].memory =
                              MemoryAfterRespond(@, input_text, llm[name], checkpointed)]
             res == RespondResult(llm[name]) IN
         IF res.exc # "none"
         THEN [exc |-> res.exc, characters |-> after]
         ELSE GenerateCharacterResponses(i + 1, after, input_text, llm, checkpointed)

\* the page is drawn: developments are generated when none are pending
DisplayStoryDevelopments(replies) ==
    /\ ~Truthy(session_state.current_developments)
    /\ session_state' =
          [session_state EXCEPT
              !.current_developments =
                  GenerateDevelopments(SessionContext(story_state), branching_factor,
                                       ParsedAnalysis, replies, LLMError).value]
    /\ ret' = [op |-> "display_story_developments"]
    /\ UNCHANGED <<storeVars, sessionVars, engineVars, pc, writers>>

\* the Make Choice button with the radio at choice and custom_text in the
\* text area: the custom development is inserted, then process_choice runs
MakeChoice(choice, custom_text, llm, checkpointed) ==
    LET shown == session_state.current_developments.developments
        custom == Strip(custom_text) # ""
        developments ==
            IF custom
            THEN Insert(shown, choice, CustomDevelopment(custom_text, story_state))
            ELSE shown
        chosen_development == developments[choice + 1]
        story == IF chosen_development.possible_actions # <<>>
                 THEN chosen_development.new_situation
                 ELSE story_state
        responses == GenerateCharacterResponses(1, characters, chosen_development.description,
                                                llm, checkpointed)
        game_state == PrepareSaveData(Session(story, responses.characters,
                                              current_developments), now) IN
    /\ Truthy(session_state.current_developments)
    /\ choice + 1 \in DOMAIN Prefix(shown, MaxChoices)
    /\ TotalMessages(characters, DOMAIN characters) + 2 * Len(ConfigOrder) <= MaxMessages
    /\ Len(developments) <= MaxPending
    /\ story_state' = story
    /\ characters' = responses.characters
    /\ IF responses.exc # "none"
       THEN /\ session_state' =
                  [session_state EXCEPT
                      !.current_developments.developments = developments,
                      !.custom_choice = Raw(custom_text)]
            /\ UNCHANGED <<files, hist>>
       ELSE /\ session_state' =
                  [session_state EXCEPT
                      !.current_developments = None,
                      !.custom_choice = Raw(custom_text),
                      !.story_history =
                          Append(@, [development |-> chosen_development.description,
                                     is_custom |-> chosen_development.possible_actions = <<>>])]
            /\ RoomFor(AutosaveId(now))
            /\ files' = FilesAfterSave(files, AutosaveId(now), now, game_state.story_state,
                                       game_state.character_states,
                                       game_state.narrative_state, AutosaveMetadata(now))
            /\ hist' = HistAfterSave(hist, AutosaveId(now), "create_autosave",
                                     game_state.story_state, game_state.character_states,
                                     game_state.narrative_state)
    /\ ret' = [op |-> "make_choice", choice |-> choice, custom |-> custom,
               exc |-> responses.exc, shown |-> shown,
               description |-> chosen_development.description]
    /\ UNCHANGED <<now, uuids, current_developments, engineVars, pc, writers>>

\* the Quick Save button: save_game("quick")
AppQuickSave == MenuQuickSave

\* the Load Selected Save button, over the ids list_saves has shown
AppLoadGame(save_id) ==
    LET saves == ListSaves(files)
        loaded == LoadGame(files, save_id)
        res == LoadIntoSession(CurrentSession, loaded) IN
    /\ saves.exc = "none"
    /\ save_id \in DOMAIN saves.value
    /\ AssignSession(res.session)
    /\ ret' = [op |-> "app_load", id |-> save_id, exc |-> res.exc,
               loaded |-> loaded, before |-> CurrentSession]
    /\ UNCHANGED <<storeVars, engineVars, uiVars, writers>>

\* the snapshots of save files that lack a field
PartialSnapshots ==
    {[k \in fields |-> snapshot[k]] :
        snapshot \in ForeignSnapshots,
        fields \in {{"story_state", "character_states", "narrative_state"},
                    {"story_state", "character_states"},
                    {"story_state"},
                    {"character_states", "narrative_state"}}}

\* load_game of the front end once the save manager has returned save_data:
\* load_save_data runs, and any exception is caught and shown
AppLoadSnapshot(save_data) ==
    LET res == TryLoadSaveData(CurrentSession, save_data) IN
    /\ AssignSession(res.session)
    /\ ret' = [op |-> "app_load_snapshot", exc |-> res.exc, save_data |-> save_data,
               before |-> CurrentSession]
    /\ UNCHANGED <<storeVars, engineVars, uiVars, writers>>

NextApp ==
    \/ \E r \in TurnReplies : DisplayStoryDevelopments(r)
    \/ \E c \in 0 .. MaxChoices - 1, t \in CustomTexts,
          l \in [Names -> TurnCharacterReplies], k \in BOOLEAN :
          MakeChoice(c, t, l, k)
    \/ AppQuickSave
    \/ \E id \in SaveIds : AppLoadGame(id)

SpecApp == InitSession /\ [][NextApp]_vars

\* the session under loads of save files that lack fields
NextLoad ==
    \/ \E d \in PartialSnapshots : AppLoadSnapshot(d)
    \/ \E r \in SessionReplies : GenerateStep(r)
    \/ \E c \in 0 .. MaxChoices - 1 : ChooseStep(c)
    \/ AppQuickSave
    \/ \E id \in SaveIds : AppLoadGame(id)

SpecLoad == InitSession /\ [][NextLoad]_vars

----------------------------------------------------------------------------
(* Claims about the save store *)

\* C1: a load_game of an id returns the record of the last save_game to that
\* id (nothing having deleted it since): its story_state, character_states and
\* narrative_state are the saved payloads and its save_id is the id.
C1_SaveLoadRoundTrip ==
    (ret.op = "load_game" /\ ret.id \in DOMAIN hist /\ hist[ret.id].intact)
        => /\ ret.res.exc = "none"
           /\ ret.res.type = "dict"
           /\ ret.res.value.save_id = ret.id
           /\ ret.res.value.story_state = hist[ret.id].story_state
           /\ ret.res.value.character_states = hist[ret.id].character_states
           /\ ret.res.value.narrative_state = hist[ret.id].narrative_state

\* a generated id is loaded back while a second record is stored beside it
C1_Witness ==
    /\ ret.op = "load_game"
    /\ ret.id = Uuid4(1)
    /\ ret.id \in DOMAIN hist
    /\ ret.res.exc = "none"
    /\ ret.res.value.story_state = "corridor"
    /\ Cardinality(DOMAIN files) = 2

\* C4: load_game(id) raises FileNotFoundError exactly when no record is stored
\* under id, quick_load(slot) exactly when no quick save is stored in the
\* slot, and a load changes no file of the store.
C4_NotFoundExactlyWhenAbsent ==
    /\ ret.op = "load_game" =>
            /\ files = ret.before
            /\ (ret.res.exc = "FileNotFoundError") <=> (ret.id \notin DOMAIN hist)
    /\ ret.op = "quick_load" =>
            /\ files = ret.before
            /\ (ret.res.exc = "FileNotFoundError")
                  <=> ~(/\ QuickSaveId(ret.slot) \in DOMAIN hist
                        /\ hist[QuickSaveId(ret.slot)].by = "quick_save")

\* a quick load of an empty slot fails while the other slot holds a record
C4_Witness ==
    /\ ret.op = "quick_load"
    /\ ret.slot = 1
    /\ ret.res.exc = "FileNotFoundError"
    /\ QuickSaveId(0) \in DOMAIN hist

\* the files whose record says it is the quick save of the slot
QuickSaveRecords(fs, slot) ==
    {p \in DOMAIN fs :
        /\ JsonLoad(fs[p]).exc = "none"
        /\ JsonLoad(fs[p]).type = "dict"
        /\ "metadata" \in DOMAIN JsonLoad(fs[p]).value
        /\ JsonLoad(fs[p]).value.metadata = QuickSaveMetadata(slot)}

\* C5: a slot that was quick saved has exactly one record, under the id
\* quicksave_{slot}, with the metadata of a quick save and the data of the
\* last quick save to the slot; a quick save leaves every other file as it was.
C5_QuickSaveOverwrites ==
    /\ \A s \in Slots :
            (QuickSaveId(s) \in DOMAIN hist /\ hist[QuickSaveId(s)].by = "quick_save")
                => /\ QuickSaveRecords(files, s) = {GetSavePath(QuickSaveId(s))}
                   /\ LoadGame(files, QuickSaveId(s)).value.save_id = QuickSaveId(s)
                   /\ LoadGame(files, QuickSaveId(s)).value.story_state
                          = hist[QuickSaveId(s)].story_state
                   /\ LoadGame(files, QuickSaveId(s)).value.character_states
                          = hist[QuickSaveId(s)].character_states
                   /\ LoadGame(files, QuickSaveId(s)).value.narrative_state
                          = hist[QuickSaveId(s)].narrative_state
    /\ ret.op = "quick_save" =>
            \A p \in DOMAIN ret.before \ {GetSavePath(ret.id)} :
                p \in DOMAIN files /\ files[p] = ret.before[p]

\* slot 1 is quick saved again with other data while slot 0 holds a record
C5_Witness ==
    /\ ret.op = "quick_save"
    /\ ret.slot = 1
    /\ hist[QuickSaveId(1)].story_state = "corridor"
    /\ QuickSaveId(0) \in DOMAIN hist
    /\ LoadGame(files, QuickSaveId(0)).value.story_state = "lab"

WellFormedRecord(content) ==
    /\ content.json = "object"
    /\ {"timestamp", "metadata"} \subseteq DOMAIN content.value

\* C10: list_saves never raises and returns exactly the ids of the files that
\* hold a well-formed record, each with the record's timestamp and metadata;
\* every other file is skipped.
C10_ListSkipsUnparseable ==
    ret.op = "list_saves"
        => /\ ret.res.exc = "none"
           /\ DOMAIN ret.res.value
                = {id \in SaveIds : /\ GetSavePath(id) \in DOMAIN files
                                    /\ WellFormedRecord(files[GetSavePath(id)])}
           /\ \A id \in DOMAIN ret.res.value :
                ret.res.value[id] =
                    [timestamp |-> files[GetSavePath(id)].value.timestamp,
                     metadata |-> files[GetSavePath(id)].value.metadata]

\* C11: delete_save returns TRUE and removes the record when one is stored
\* under the id, returns FALSE and changes nothing otherwise; right after it a
\* load of the id ends in FileNotFoundError, a second delete_save of the id
\* returns FALSE, and the records under other ids are as they were
C11_DeleteIdempotent ==
    ret.op = "delete_save" =>
        LET path == GetSavePath(ret.id) IN
        /\ ret.value = (path \in DOMAIN ret.before)
        /\ ~ret.value => files = ret.before
        /\ LoadGame(files, ret.id) = [exc |-> "FileNotFoundError"]
        /\ DeleteSaveResult(files, ret.id) = [files |-> files, value |-> FALSE]
        /\ DOMAIN files = DOMAIN ret.before \ {path}
        /\ \A p \in DOMAIN files : files[p] = ret.before[p]

C11_Witness ==
    /\ ret.op = "delete_save"
    /\ ret.value
    /\ Cardinality(DOMAIN ret.before) = 2
    /\ Cardinality(DOMAIN files) = 1

IsAutosaveOf(content, t) ==
    /\ "type" \in DOMAIN content.value.metadata
    /\ content.value.metadata.type = "autosave"
    /\ content.value.metadata.timestamp = StrfTime(t)

\* C12: an autosave issued in the second of an earlier autosave gets that
\* autosave's id and replaces its record with the new data; an autosave issued
\* in another second gets another id and the earlier record stays stored
C12_AutosavePerSecond ==
    ret.op = "create_autosave" =>
        /\ files[GetSavePath(ret.id)].value.story_state = ret.data.story_state
        /\ \A p \in DOMAIN ret.before :
              (\E t \in 0 .. now : IsAutosaveOf(ret.before[p], t)) =>
                  IF IsAutosaveOf(ret.before[p], now)
                  THEN /\ p = GetSavePath(ret.id)
                       /\ DOMAIN files = DOMAIN ret.before
                  ELSE /\ p # GetSavePath(ret.id)
                       /\ p \in DOMAIN files
                       /\ files[p] = ret.before[p]

C12_Witness ==
    /\ ret.op = "create_autosave"
    /\ now = 1
    /\ GetSavePath(ret.id) \in DOMAIN ret.before
    /\ ret.before[GetSavePath(ret.id)].value.story_state # ret.data.story_state
    /\ \E p \in DOMAIN files : IsAutosaveOf(files[p], 0)


----------------------------------------------------------------------------
(* Claims about the drama manager and the narrative engine *)

\* something raises inside generate_developments: the analysis step (no
\* character_responses, responses that are no mapping, a parsed analysis
\* without the 'analysis' entry), one of the generation calls, or the parsing
\* of one of the replies (an ACTION line without ':')
ParsingFails(reply) ==
    \E k \in DOMAIN reply.lines : reply.lines[k].key = "ACTION" /\ ~reply.lines[k].colon

GenerationFails(context, analysis, replies) ==
    \/ "character_responses" \notin DOMAIN context
    \/ context.character_responses = NotAMapping
    \/ analysis = ParsedWithoutAnalysis
    \/ \E i \in 1 .. MaxChoices : replies[i] = LLMError \/ ParsingFails(replies[i])

\* C6: generate_developments never raises to its caller; when the analysis
\* step, a generation call or the parsing of a reply fails, what was built is
\* discarded and the configured fallback development set is returned
C6_GenerateFallsBack ==
    ret.op = "generate_developments" =>
        /\ ret.res.exc = "none"
        /\ GenerationFails(ret.context, ret.analysis, ret.replies) =>
              ret.res.value =
                  [developments |->
                      <<[description |-> "The story continues",
                         new_situation |-> "The situation develops",
                         possible_actions |-> <<>>]>>]

C6_Witness ==
    /\ ret.op = "generate_developments"
    /\ ret.replies[1] = GoodReply
    /\ ret.replies[2] = ActionWithoutColon
    /\ ret.res.value = FallbackDevelopments

\* C8: when its call or its parse fails, analyze_dramatic_elements does not
\* raise and returns the fixed neutral analysis; enhance_response never raises
\* and returns exactly the original response when anything fails
C8_DramaFallbacks ==
    /\ (ret.op = "analyze" /\ ret.outcome \in {LLMError, ParseError}) =>
          /\ ret.res.exc = "none"
          /\ ret.res.value.analysis =
                [conflicts |-> <<"Unresolved tension">>,
                 emotions |-> [default |-> "uncertain"],
                 plot_opportunities |-> <<"Continue current arc">>,
                 themes |-> <<"Mystery">>]
    /\ ret.op = "enhance" =>
          /\ ret.res.exc = "none"
          /\ (ret.outcome = LLMError \/ ~HasEnhancementTemplate) =>
                ret.res.value = ret.response

C8_Witness ==
    /\ ret.op = "analyze"
    /\ ret.outcome = ParseError
    /\ ret.res = [exc |-> "none", value |-> FallbackAnalysis]

----------------------------------------------------------------------------
(* Claims about the session and the characters *)

\* C2: the snapshot that prepare_save_data takes holds the situation and, for
\* every character, the ordered exchanges of its memory; load_save_data of a
\* snapshot makes the situation and every character's memory those of the
\* snapshot, replacing the memory wholesale
C2_SessionRoundTrip ==
    /\ ret.op = "menu_quick_save" =>
          /\ ret.snapshot.story_state.current_scene = story_state
          /\ \A n \in Names :
                ret.snapshot.character_states[n].memory = Exchanges(characters[n].memory)
    /\ (ret.op = "menu_load" /\ ret.exc = "none") =>
          /\ story_state = ret.loaded.value.story_state.current_scene
          /\ \A n \in Names :
                Exchanges(characters[n].memory) =
                    ret.loaded.value.character_states[n].memory

\* C3: a load of a save id or of a quick-save slot that has no record ends in
\* FileNotFoundError and leaves the situation, the roster, the memories and
\* the pending developments as they were before it
C3_FailedLoadKeepsSession ==
    (ret.op = "menu_load" /\ GetSavePath(ret.id) \notin DOMAIN files) =>
        /\ ret.exc = "FileNotFoundError"
        /\ story_state = ret.before.story_state
        /\ DOMAIN characters = DOMAIN ret.before.characters
        /\ \A n \in DOMAIN characters :
              characters[n].memory = ret.before.characters[n].memory
        /\ current_developments = ret.before.current_developments

C3_Witness ==
    /\ ret.op = "menu_load"
    /\ ret.id = Uuid4(1)
    /\ ret.exc = "FileNotFoundError"
    /\ story_state # FormatInitialState
    /\ Truthy(current_developments)
    /\ \E n \in Names : Exchanges(characters[n].memory) # <<>>

\* C7: when the service raises during respond, the caller gets that exception
\* and no text, and the character's memory holds the exchanges it held before
C7_RespondPropagatesFailure ==
    (ret.op = "respond" /\ ret.llm = LLMError) =>
        /\ ret.res = [exc |-> "Exception"]
        /\ Exchanges(characters[ret.name].memory) = Exchanges(ret.before[ret.name].memory)

C7_Witness ==
    /\ ret.op = "respond"
    /\ ret.llm = LLMError
    /\ ret.res.exc = "Exception"
    /\ Exchanges(ret.before[ret.name].memory) # <<>>

\* C9: a respond that succeeds returns the service's reply and appends the one
\* exchange (input_text, reply) at the end of the character's memory; what the
\* memory held stays as it was, and so do the memories of the other characters
C9_RespondAppendsOneExchange ==
    (ret.op = "respond" /\ ret.llm # LLMError) =>
        LET old == ret.before[ret.name].memory
            new == characters[ret.name].memory IN
        /\ ret.res = [exc |-> "none", value |-> ret.llm.text]
        /\ Exchanges(new) = Append(Exchanges(old), <<ret.input, ret.llm.text>>)
        /\ Len(new) >= Len(old)
        /\ SubSeq(new, 1, Len(old)) = old
        /\ \A n \in Names \ {ret.name} : characters[n] = ret.before[n]

C9_Witness ==
    /\ ret.op = "respond"
    /\ ret.llm # LLMError
    /\ Exchanges(ret.before[ret.name].memory) # <<>>
    /\ Len(Exchanges(characters[ret.name].memory)) = 2
    /\ \E n \in Names \ {ret.name} : characters[n].memory # <<>>

----------------------------------------------------------------------------
(* Claims about the branching factor and the parsing of replies *)

\* the number of distinct values among the last three entries of a list
DistinctOfLastThree(c) ==
    Cardinality({c[i] : i \in {j \in 1 .. Len(c) : j > Len(c) - 3}})

\* C13: the branching factor starts at 1.0 and every update multiplies it by
\* 1 + 0.1 * (distinct values among the last three choices); from 1.0 the
\* list [1,2,3] gives 1.3 and then the list [1,1,1] gives 1.43
C13_BranchingFactorUpdate ==
    /\ ret.op = "init" => branching_factor = [n |-> 1, e |-> 0]
    /\ ret.op = "_update_branching_factor" =>
          /\ branching_factor.e <= ret.before.e + 1
          /\ branching_factor.n * Pow10(ret.before.e + 1 - branching_factor.e) =
                ret.before.n * (10 + DistinctOfLastThree(ret.choices))
          /\ (ret.before = [n |-> 1, e |-> 0] /\ ret.choices = <<1, 2, 3>>) =>
                branching_factor = [n |-> 13, e |-> 1]
          /\ (ret.before = [n |-> 13, e |-> 1] /\ ret.choices = <<1, 1, 1>>) =>
                branching_factor = [n |-> 143, e |-> 2]

C13_Witness ==
    /\ ret.op = "_update_branching_factor"
    /\ ret.before = [n |-> 13, e |-> 1]
    /\ ret.choices = <<1, 1, 1>>
    /\ branching_factor = [n |-> 143, e |-> 2]

\* the developments an operation of the engine returned
ReturnedDevelopments ==
    CASE ret.op = "generate_developments" -> ret.res.value.developments
      [] ret.op = "_parse_development" /\ ret.res.exc = "none" -> <<ret.res.value>>
      [] OTHER -> <<>>

\* the impact d is min(1.0, 0.2 + bf * 0.3) and lies in [0.2, 1.0]
ImpactFor(d, bf) ==
    LET sum == 2 * Pow10(bf.e) + 3 * bf.n
        one == Pow10(bf.e + 1) IN
    /\ d.e <= bf.e + 1
    /\ d.n * Pow10(bf.e + 1 - d.e) = (IF sum < one THEN sum ELSE one)
    /\ 2 * Pow10(d.e) <= 10 * d.n
    /\ d.n <= Pow10(d.e)

\* C14: every action of every development the engine returns carries the
\* impact min(1.0, 0.2 + branching factor * 0.3) for the branching factor the
\* engine had when it generated the development, a value in [0.2, 1.0]
C14_ActionImpact ==
    \A i \in DOMAIN ReturnedDevelopments :
        \A k \in DOMAIN ReturnedDevelopments[i].possible_actions :
            ImpactFor(ReturnedDevelopments[i].possible_actions[k].impact, ret.bf)

C14_Witness ==
    /\ ret.op = "generate_developments"
    /\ ret.bf.n * 3 > 8 * Pow10(ret.bf.e)
    /\ Len(ret.res.value.developments) = MaxChoices
    /\ ret.res.value.developments[1].possible_actions[1].impact = [n |-> 1, e |-> 0]

\* the texts of the lines of a reply that start with key and ':'
TextsOf(response, key) ==
    LET Matches(line) == line.key = key /\ line.colon
        matching == SelectSeq(response.lines, Matches) IN
    [i \in DOMAIN matching |-> matching[i].text.body]

\* every line of the reply that starts with a keyword has its ':'
WellFormedReply(response) ==
    /\ \A i \in DOMAIN response.lines :
          response.lines[i].key # "OTHER" => response.lines[i].colon
    /\ Len(TextsOf(response, "DESCRIPTION")) = 1
    /\ Len(TextsOf(response, "SITUATION")) = 1
    /\ Len(TextsOf(response, "TWIST")) <= 1

\* C15: for a reply with a DESCRIPTION:, a SITUATION:, maybe a TWIST: and n
\* ACTION<k>: lines, the parsed development has the enhanced DESCRIPTION text
\* as description, the SITUATION text as new_situation, the tag "plot_twist"
\* exactly when there is a TWIST line, and the n actions in the lines' order
C15_ParseGrammar ==
    (ret.op = "_parse_development" /\ WellFormedReply(ret.response)) =>
        LET dev == ret.res.value
            actions == TextsOf(ret.response, "ACTION") IN
        /\ ret.res.exc = "none"
        /\ dev.description =
              EnhanceResponse(TextsOf(ret.response, "DESCRIPTION")[1], ret.enhance).value
        /\ dev.new_situation = TextsOf(ret.response, "SITUATION")[1]
        /\ (\E i \in DOMAIN dev.tags : dev.tags[i] = "plot_twist")
              <=> TextsOf(ret.response, "TWIST") # <<>>
        /\ Len(dev.possible_actions) = Len(actions)
        /\ \A k \in DOMAIN actions : dev.possible_actions[k].text = actions[k]

C15_Witness ==
    /\ ret.op = "_parse_development"
    /\ ret.response = TwistReply
    /\ ret.res.value.tags = <<"plot_twist">>
    /\ ret.res.value.description = "A door opens"

\* C16: parsing a reply never raises: lines that are not recognised, also
\* those that start with a keyword such as ACTION without ':', are ignored
\* and every field no line supplied keeps its default
C16_ParseNeverRaises ==
    ret.op = "_parse_development" =>
        /\ ret.res.exc = "none"
        /\ TextsOf(ret.response, "DESCRIPTION") = <<>> =>
              ret.res.value.description = "Default narrative progression"
        /\ TextsOf(ret.response, "SITUATION") = <<>> =>
              ret.res.value.new_situation = "Continuing story"
        /\ TextsOf(ret.response, "ACTION") = <<>> =>
              ret.res.value.possible_actions = <<>>

----------------------------------------------------------------------------
(* Claims about the turn loops *)

PendingOf(v) == IF Truthy(v) THEN v.developments ELSE <<>>

\* C17: the pending developments, when present, hold at most max_choices
\* entries, in the front end's session state as in the GameState, also after
\* a custom text has been inserted into the menu and after a load
C17_PendingWithinMaxChoices ==
    /\ Len(PendingOf(session_state.current_developments)) <= MaxChoices
    /\ Len(PendingOf(current_developments)) <= MaxChoices

\* C18: the situation is never empty after initialisation, whatever the
\* generation service returns, whatever is chosen and whatever is loaded
C18_SituationNeverEmpty == story_state # ""

\* C19: once the choice of a turn has been processed no developments are
\* pending, and developments are generated only when none are pending
C19_PendingClearedAndLazy ==
    /\ (ret.op = "turn_respond" /\ ret.turn_over) => ~Truthy(current_developments)
    /\ ret.op = "continue_story" => ~Truthy(ret.pending_before)

StaticTraits(character) ==
    [name |-> character.name, personality |-> character.personality,
     background |-> character.background]

\* C20: no step removes or renames a key of the roster or changes the static
\* traits of its agent; a key is added only by a load, for a saved name
C20_RosterStable ==
    [][/\ \A n \in DOMAIN characters :
            /\ n \in DOMAIN characters'
            /\ StaticTraits(characters'[n]) = StaticTraits(characters[n])
       /\ \A n \in DOMAIN characters' \ DOMAIN characters :
            /\ ret'.op = "menu_load"
            /\ ret'.exc = "none"
            /\ n \in DOMAIN ret'.loaded.value.character_states]_vars

\* a load has added the agent of a saved name to a roster that keeps its own
C20_Witness ==
    /\ ret.op = "menu_load"
    /\ ret.exc = "none"
    /\ DOMAIN characters \ DOMAIN ret.before.characters # {}
    /\ DOMAIN ret.before.characters # {}

----------------------------------------------------------------------------
(* Claims about the play time *)

\* C21: get_playtime gives the whole hours and the remaining whole minutes of
\* the time since the start, whatever the duration, with 00 seconds
C21_PlaytimeWholeHours ==
    ret.op = "get_playtime" =>
        ret.value = [hours |-> (ret.at - PlaytimeStart) \div 3600,
                     minutes |-> ((ret.at - PlaytimeStart) % 3600) \div 60,
                     seconds |-> 0]

----------------------------------------------------------------------------
(* Claims about one call of generate_developments *)

\* the impacts of all actions of the developments an operation returned
ReturnedImpacts ==
    UNION {{ReturnedDevelopments[i].possible_actions[k].impact :
               k \in DOMAIN ReturnedDevelopments[i].possible_actions} :
           i \in DOMAIN ReturnedDevelopments}

\* C22: all actions of all developments of one returned batch carry the same
\* impact, that of the branching factor before the call: the update of the
\* call is applied after the whole batch has been generated and parsed
C22_OneImpactPerBatch ==
    ret.op = "generate_developments" =>
        /\ Cardinality(ReturnedImpacts) <= 1
        /\ ReturnedImpacts \subseteq {CalculateActionImpact(ret.bf)}

\* a batch of max_choices developments with actions, returned by a call whose
\* update changed the branching factor and with it the impact of later batches
C22_Witness ==
    /\ ret.op = "generate_developments"
    /\ "choices_made" \in DOMAIN ret.context
    /\ Len(ReturnedDevelopments) = MaxChoices
    /\ \A i \in DOMAIN ReturnedDevelopments :
          Len(ReturnedDevelopments[i].possible_actions) > 0
    /\ branching_factor # ret.bf
    /\ CalculateActionImpact(branching_factor) # CalculateActionImpact(ret.bf)

\* C23: a call that does not fail runs the analysis once, before any call of
\* the generation service, then calls the service max_choices times with the
\* numbers 1 .. max_choices in order, and returns max_choices developments,
\* the i-th parsed from the reply to the i-th call
C23_CallsInOrder ==
    (ret.op = "generate_developments"
        /\ ~GenerationFails(ret.context, ret.analysis, ret.replies)) =>
        /\ ret.calls = <<Analyze>> \o [i \in 1 .. MaxChoices |-> Invoke(i)]
        /\ Len(ret.res.value.developments) = MaxChoices
        /\ \A i \in 1 .. MaxChoices :
              /\ ret.res.value.developments[i].description =
                    TextsOf(ret.replies[i], "DESCRIPTION")[1]
              /\ ret.res.value.developments[i].new_situation =
                    TextsOf(ret.replies[i], "SITUATION")[1]

\* a call that did not fail, over replies that differ from one another
C23_Witness ==
    /\ ret.op = "generate_developments"
    /\ ~GenerationFails(ret.context, ret.analysis, ret.replies)
    /\ Len(ret.calls) = MaxChoices + 1
    /\ \A i, j \in 1 .. MaxChoices : i # j => ret.replies[i] # ret.replies[j]

\* C24: generate_developments multiplies the branching factor once, by
\* 1 + 0.1 * (distinct values among the last three choices), when the context
\* carries choices_made and the batch succeeded; without choices_made, and
\* whenever the fallback set is returned, the branching factor stays as it
\* was; the history of the engine stays as it was in every case
C24_BranchingFactorFrame ==
    ret.op = "generate_developments" =>
        /\ history = ret.history
        /\ IF "choices_made" \in DOMAIN ret.context
              /\ ~GenerationFails(ret.context, ret.analysis, ret.replies)
           THEN /\ branching_factor.e <= ret.bf.e + 1
                /\ branching_factor.n * Pow10(ret.bf.e + 1 - branching_factor.e) =
                      ret.bf.n * (10 + DistinctOfLastThree(ret.context.choices_made))
           ELSE branching_factor = ret.bf

\* a call with choices_made that returned the fallback set, with a history
\* recorded before it
C24_Witness ==
    /\ ret.op = "generate_developments"
    /\ "choices_made" \in DOMAIN ret.context
    /\ DistinctOfLastThree(ret.context.choices_made) > 0
    /\ GenerationFails(ret.context, ret.analysis, ret.replies)
    /\ ret.res.value = FallbackDevelopments
    /\ branching_factor = ret.bf
    /\ history # <<>>

\* a <= b for two decimals
LeqDecimal(a, b) ==
    LET m == IF a.e < b.e THEN b.e ELSE a.e IN
    a.n * Pow10(m - a.e) <= b.n * Pow10(m - b.e)

One == [n |-> 1, e |-> 0]
EightThirdsReached(bf) == 3 * bf.n >= 8 * Pow10(bf.e)

\* the branching factor before the last operation of the engine
FactorBefore ==
    CASE ret.op = "_update_branching_factor" -> ret.before
      [] ret.op = "generate_developments" -> ret.bf
      [] OTHER -> branching_factor

\* C25: the branching factor is at least 1.0 and no operation decreases it
\* (an update multiplies it by at most 1.3), so the impact of a later batch is
\* never below that of an earlier one, and it is exactly 1.0 once the
\* branching factor has reached 8/3
C25_BranchingFactorGrows ==
    /\ LeqDecimal(One, branching_factor)
    /\ LeqDecimal(FactorBefore, branching_factor)
    /\ LeqDecimal(branching_factor, [n |-> 13 * FactorBefore.n, e |-> FactorBefore.e + 1])
    /\ LeqDecimal(CalculateActionImpact(FactorBefore), CalculateActionImpact(branching_factor))
    /\ EightThirdsReached(FactorBefore) =>
          /\ EightThirdsReached(branching_factor)
          /\ ReturnedImpacts \subseteq {One}
    /\ EightThirdsReached(branching_factor) => CalculateActionImpact(branching_factor) = One

\* an update has taken the branching factor from below 8/3 to 8/3 or more
C25_Witness ==
    /\ ret.op = "_update_branching_factor"
    /\ ~EightThirdsReached(ret.before)
    /\ EightThirdsReached(branching_factor)
    /\ CalculateActionImpact(ret.before) # One

----------------------------------------------------------------------------
(* Claims about the responses of a turn and about loading *)

\* the input and the reply of the last exchange in a character's memory
LastInput(character) == character.memory[Len(character.memory) - 1].content
LastReply(character) == character.memory[Len(character.memory)].content

\* C26: in a turn every character responds once, one after another: the
\* first to the description of the chosen development, each later one to the
\* response of the character before it
C26_ResponsesChained ==
    (ret.op = "make_choice" /\ ret.exc = "none") =>
        /\ \A i \in DOMAIN ConfigOrder : Len(characters[ConfigOrder[i]].memory) >= 2
        /\ LastInput(characters[ConfigOrder[1]]) = ret.description
        /\ \A i \in DOMAIN ConfigOrder \ {1} :
              LastInput(characters[ConfigOrder[i]]) =
                  LastReply(characters[ConfigOrder[i - 1]])

\* C27: a load replaces the pending developments by the saved list exactly
\* when the saved list is not empty; a snapshot with an empty developments
\* list leaves the pending developments as they were
C27_LoadRestoresNonEmptyList ==
    (ret.op = "menu_load" /\ ret.exc = "none") =>
        IF ret.loaded.value.narrative_state.developments # <<>>
        THEN current_developments =
                 [developments |-> ret.loaded.value.narrative_state.developments]
        ELSE current_developments = ret.before.current_developments

----------------------------------------------------------------------------
(* Claims about saves that overlap *)

\* C28: once two overlapping saves to one id have both completed, the file
\* holds the complete record of one of them; and a load never finds a record
\* that is written in part
C28_LastWriteWins ==
    /\ (\A s \in Sessions : writers[s].at = "closed") =>
          \E s \in Sessions :
              files[GetSavePath(writers[s].data.save_id)] = JsonDump(writers[s].data)
    /\ (ret.op = "load_game" /\ GetSavePath(ret.id) \in DOMAIN ret.before) =>
          ret.res.exc = "none"

----------------------------------------------------------------------------
(* Claims about loads that fail and about the accepted choice *)

\* C29: a load_save_data that fails on a snapshot lacking a field leaves the
\* situation, the roster, the memories and the pending developments as they
\* were before the call
C29_LoadAllOrNothing ==
    (ret.op = "app_load_snapshot" /\ ret.exc # "none") =>
        /\ story_state = ret.before.story_state
        /\ characters = ret.before.characters
        /\ current_developments = ret.before.current_developments

\* C30: a choice index the turn loop has accepted refers to an entry of the
\* pending developments, also when these are the fallback set, so applying
\* the choice does not fail
C30_AcceptedChoiceExists ==
    ret.op = "choose_action" =>
        /\ ret.choice < Len(current_developments.developments)
        /\ pc.at # "crashed"

============================================================================
